---- MODULE Spec2Model ----
(***************************************************************************)
(* A model of the cooperative RTOS kernel of rtos-ts: the TaskManager      *)
(* (src/lib/task.ts) and the Scheduler built on it (src/lib/scheduler.ts). *)
(*                                                                         *)
(* The TaskManager's fields are the variables tasks, nextHandle,           *)
(* currentTask, readyList, blockedList and suspendedList; its methods are  *)
(* operators from a TaskManager record to a TaskManager record, so that    *)
(* the Scheduler's handlers, which call several of them in a row, are      *)
(* single actions.  A handle is a positive integer, NULL stands for the    *)
(* source's null.                                                          *)
(***************************************************************************)
EXTENDS Integers, Sequences, FiniteSets, TLC

\* ------------------------------------------------------------------ bounds
MaxHandle   == 3   \* handles 1..MaxHandle can be allocated (the idle task is 1)
MaxPriority == 1   \* priorities are drawn from 0..MaxPriority
MaxDelay    == 1   \* a task body passes -1..MaxDelay to delay(n)
MaxSteps    == 1   \* a generator body has at most MaxSteps suspension points
MaxTicks    == 1   \* tickCount is capped (start() resets it to 0)
MaxDups     == 1   \* no list holds more than MaxDups repeated entries
MaxRRTasks  == 3   \* user tasks of the run-order scenario
MaxLog      == 6   \* ticks of the run-order scenario
PPHigh      == 10  \* priority of the delaying task of the preemption scenario
PPLow       == 3   \* priority of the yielding task of the preemption scenario
PPDelay     == 5   \* the delay every step of a delaying task asks for
MaxPPTicks  == 7   \* ticks of the preemption scenario
MaxPPTasks  == 2   \* user tasks of the preemption scenario
MaxMs       == 250 \* delayMs(ms) is called with ms in 0..MaxMs
MaxTickRate == 10  \* config.tickRate is drawn from 1..MaxTickRate
MaxMsTasks  == 1   \* user tasks of the delay-call specification
MaxMsTicks  == 2   \* ticks of the delay-call specification
MaxSRTasks  == 1   \* user tasks of the suspend/resume scenario
MaxSRTicks  == 4   \* ticks of the suspend/resume scenario
MaxStepTasks == 2  \* user tasks of the step specification
MaxStepTicks == 3  \* ticks of the step specification
MaxIdleTasks == 1  \* user tasks of the idle specification
MaxIdleTicks == 2  \* ticks between a start() and the next, idle specification
MaxFairDelay == 2  \* a delaying task of the rotation specification asks for 1..MaxFairDelay
MaxFairTicks == 3  \* ticks between a start() and the next, rotation specification

DefaultTickRate == 10
MsPerSecond == 1000

NULL == 0

Handles    == 1..MaxHandle
Priorities == 0..MaxPriority
DelayArgs  == (0 - 1)..MaxDelay

\* ------------------------------------------------------------------- state
VARIABLES
  tasks,             \* TaskManager.tasks: live handle -> task control block
  nextHandle,        \* TaskManager.nextHandle
  currentTask,       \* TaskManager.currentTask (NULL or a handle)
  readyList,         \* TaskManager.readyList
  blockedList,       \* TaskManager.blockedList
  suspendedList,     \* TaskManager.suspendedList
  isRunning,         \* Scheduler.isRunning
  tickCount,         \* Scheduler.tickCount
  tickInterval,      \* Scheduler.tickInterval: TRUE while the interval timer is set
  currentTaskIndex,  \* Scheduler.currentTaskIndex
  idleTaskHandle,    \* Scheduler.idleTaskHandle
  sel,               \* what the last tick's schedule() saw and ran (history)
  issued,            \* the handles createTask has returned, in order (history)
  runLog,            \* the tasks advanced tick by tick (history, scenarios)
  unit,              \* the task created from a function body, and its restartable unit
  tickRate,          \* Scheduler.config.tickRate
  step,              \* the last task step or delay()/delayMs() call (history)
  susp               \* the last suspendTask/resumeTask pair (history)

vars == <<tasks, nextHandle, currentTask, readyList, blockedList, suspendedList,
          isRunning, tickCount, currentTaskIndex, idleTaskHandle, sel, issued, runLog, unit,
          tickRate, step, susp, tickInterval>>

\* The TaskManager object as one value.
TM == [tasks |-> tasks, nextHandle |-> nextHandle, currentTask |-> currentTask,
       readyList |-> readyList, blockedList |-> blockedList,
       suspendedList |-> suspendedList]

\* The lists are arrays without a capacity (suspendedList can collect the same
\* handle again and again); a step that would leave more than MaxDups repeated
\* entries in one of them is not taken.
Dups(s) == Len(s) - Cardinality({s[i] : i \in 1..Len(s)})

SetTM(m) ==
  /\ Dups(m.readyList) <= MaxDups
  /\ Dups(m.blockedList) <= MaxDups
  /\ Dups(m.suspendedList) <= MaxDups
  /\ tasks' = m.tasks
  /\ nextHandle' = m.nextHandle
  /\ currentTask' = m.currentTask
  /\ readyList' = m.readyList
  /\ blockedList' = m.blockedList
  /\ suspendedList' = m.suspendedList

\* ------------------------------------------------------- array primitives
\* Array.prototype.indexOf, 1-based; 0 when absent.
IndexOf(s, h) ==
  IF \E i \in 1..Len(s) : s[i] = h
  THEN CHOOSE i \in 1..Len(s) : s[i] = h /\ \A j \in 1..(i - 1) : s[j] # h
  ELSE 0

Includes(s, h) == \E i \in 1..Len(s) : s[i] = h

\* indexOf + splice(index, 1): removes the first occurrence only.
RemoveFirst(s, h) ==
  LET i == IndexOf(s, h)
  IN  IF i = 0 THEN s ELSE SubSeq(s, 1, i - 1) \o SubSeq(s, i + 1, Len(s))

\* splice(k - 1, 0, h) in 1-based positions: h ends up at position k.
InsertAt(s, k, h) == SubSeq(s, 1, k - 1) \o <<h>> \o SubSeq(s, k, Len(s))

Live(m, h) == h \in DOMAIN m.tasks

SetField(m, h, f, v) == [m EXCEPT !.tasks[h][f] = v]

\* ------------------------------------------------------------ TaskManager
\* The position addToReadyList inserts at: before the first entry whose
\* priority is strictly lower than the new task's, else at the end.
InsertIndex(m, h) ==
  LET rl == m.readyList
      Lower(i) == /\ Live(m, rl[i])
                  /\ m.tasks[h].priority > m.tasks[rl[i]].priority
  IN  IF \E i \in 1..Len(rl) : Lower(i)
      THEN CHOOSE i \in 1..Len(rl) : Lower(i) /\ \A j \in 1..(i - 1) : ~Lower(j)
      ELSE Len(rl) + 1

addToReadyList(m, h) ==
  IF ~Live(m, h) THEN m
  ELSE [m EXCEPT !.readyList = InsertAt(m.readyList, InsertIndex(m, h), h)]

removeFromReadyList(m, h) == [m EXCEPT !.readyList = RemoveFirst(m.readyList, h)]

removeFromBlockedList(m, h) == [m EXCEPT !.blockedList = RemoveFirst(m.blockedList, h)]

removeFromSuspendedList(m, h) ==
  [m EXCEPT !.suspendedList = RemoveFirst(m.suspendedList, h)]

\* A createTask that hands out the lowest handle no live task holds.
AllocLowestFree(m) ==
  CHOOSE h \in 1..m.nextHandle :
    ~Live(m, h) /\ \A k \in 1..(h - 1) : Live(m, k)

\* The handle createTask hands out.
AllocHandle(m) == m.nextHandle

NewTCB(priority, isGenerator, fn) ==
  [state |-> "ready", priority |-> priority, delayTicks |-> 0,
   blockedOn |-> "null", isGenerator |-> isGenerator, gen |-> 0, fn |-> fn]

\* A generator function whose call throws leaves isGenerator true and generator
\* undefined; runTask then calls the function itself, which runs no body code:
\* in the model that task is a plain function whose body does nothing.
createTask(m, priority, isGenerator, fn) ==
  LET handle == AllocHandle(m)
      m1 == [m EXCEPT !.nextHandle = m.nextHandle + 1,
                      !.tasks = [x \in DOMAIN m.tasks \cup {handle} |->
                                   IF x = handle
                                   THEN NewTCB(priority, isGenerator, fn)
                                   ELSE m.tasks[x]]]
  IN  addToReadyList(m1, handle)

deleteTask(m, h) ==
  IF ~Live(m, h) THEN m
  ELSE LET m1 == removeFromSuspendedList(
                   removeFromBlockedList(removeFromReadyList(m, h), h), h)
       IN  [m1 EXCEPT !.currentTask = IF m.currentTask = h THEN NULL ELSE m.currentTask,
                      !.tasks = [x \in DOMAIN m.tasks \ {h} |-> m.tasks[x]]]

\* A suspendTask that does not look at the task's state.
suspendAgain(m, h) ==
  IF ~Live(m, h) THEN m
  ELSE LET m1 == removeFromBlockedList(removeFromReadyList(m, h), h)
       IN  [m1 EXCEPT !.tasks[h].state = "suspended",
                      !.suspendedList = Append(m1.suspendedList, h)]

suspendTask(m, h) ==
  IF ~Live(m, h) \/ m.tasks[h].state = "suspended" THEN m
  ELSE LET m1 == removeFromBlockedList(removeFromReadyList(m, h), h)
       IN  [m1 EXCEPT !.tasks[h].state = "suspended",
                      !.suspendedList = Append(m1.suspendedList, h)]

\* A resumeTask that forgets the ready list.
resumeOffList(m, h) ==
  IF ~Live(m, h) \/ m.tasks[h].state # "suspended" THEN m
  ELSE SetField(removeFromSuspendedList(m, h), h, "state", "ready")

\* A resumeTask that sends a task with ticks left to wait back to BLOCKED.
resumeWaiting(m, h) ==
  IF ~Live(m, h) \/ m.tasks[h].state # "suspended" THEN m
  ELSE LET m1 == removeFromSuspendedList(m, h)
       IN  IF m.tasks[h].delayTicks > 0
           THEN [m1 EXCEPT !.tasks[h].state = "blocked",
                           !.blockedList = Append(m1.blockedList, h)]
           ELSE addToReadyList(SetField(m1, h, "state", "ready"), h)

resumeTask(m, h) ==
  IF ~Live(m, h) \/ m.tasks[h].state # "suspended" THEN m
  ELSE addToReadyList(SetField(removeFromSuspendedList(m, h), h, "state", "ready"), h)

blockTask(m, h, reason) ==
  IF ~Live(m, h) \/ m.tasks[h].state \notin {"ready", "running"} THEN m
  ELSE LET m1 == removeFromReadyList(m, h)
       IN  [m1 EXCEPT !.tasks[h].state = "blocked",
                      !.tasks[h].blockedOn = reason,
                      !.blockedList = Append(m1.blockedList, h)]

unblockTask(m, h) ==
  IF ~Live(m, h) \/ m.tasks[h].state # "blocked" THEN m
  ELSE LET m1 == removeFromBlockedList(m, h)
           m2 == [m1 EXCEPT !.tasks[h].state = "ready",
                            !.tasks[h].blockedOn = "null"]
       IN  addToReadyList(m2, h)

setTaskPriority(m, h, priority) ==
  IF ~Live(m, h) THEN m
  ELSE LET m1 == SetField(m, h, "priority", priority)
       IN  IF m1.tasks[h].state = "ready"
           THEN addToReadyList(removeFromReadyList(m1, h), h)
           ELSE m1

\* What the six operations return: true when they made the transition.
deleteTaskRet(m, h) == Live(m, h)

suspendTaskRet(m, h) == Live(m, h) /\ m.tasks[h].state # "suspended"

resumeTaskRet(m, h) == Live(m, h) /\ m.tasks[h].state = "suspended"

blockTaskRet(m, h) == Live(m, h) /\ m.tasks[h].state \in {"ready", "running"}

unblockTaskRet(m, h) == Live(m, h) /\ m.tasks[h].state = "blocked"

setTaskPriorityRet(m, h) == Live(m, h)

getNextTask(m) == IF Len(m.readyList) = 0 THEN NULL ELSE m.readyList[1]

setCurrentTask(m, h) ==
  LET m1 == [m EXCEPT !.currentTask = h]
  IN  IF h # NULL /\ Live(m1, h) /\ m1.tasks[h].state # "blocked"
      THEN SetField(m1, h, "state", "running")
      ELSE m1

\* A yieldCurrentTask that gives up the running slot and leaves the state alone.
releaseSlot(m) == [m EXCEPT !.currentTask = NULL]

yieldCurrentTask(m) ==
  LET h == m.currentTask
  IN  IF h # NULL /\ Live(m, h) /\ m.tasks[h].state = "running"
      THEN LET m1 == SetField(m, h, "state", "ready")
               m2 == IF Includes(m1.readyList, h) THEN m1 ELSE addToReadyList(m1, h)
           IN  [m2 EXCEPT !.currentTask = NULL]
      ELSE m

\* -------------------------------------------------------------- Scheduler
\* processDelayedTasks walks getAllTasks(), the Map's values in insertion order,
\* which is the order of the handles.
RECURSIVE processFrom(_, _)
processFrom(m, h) ==
  IF h >= m.nextHandle THEN m
  ELSE IF Live(m, h) /\ m.tasks[h].state = "blocked" /\ m.tasks[h].delayTicks > 0
       THEN LET m1 == SetField(m, h, "delayTicks", m.tasks[h].delayTicks - 1)
            IN  processFrom(IF m1.tasks[h].delayTicks = 0 THEN unblockTask(m1, h) ELSE m1,
                            h + 1)
       ELSE processFrom(m, h + 1)

\* A tick that leaves the delays alone.
SkipDelayed(m) == m

processDelayedTasks(m) == processFrom(m, 1)

\* delay(ticks): the delayTicks of the marker it returns.
delay(m, ticks) ==
  IF m.currentTask = NULL THEN 0
  ELSE IF ~Live(m, m.currentTask) THEN 0
  ELSE ticks

\* Math.floor(x / d).
FloorDiv(x, d) == x \div d

\* Math.ceil(x / d) for integers x and d > 0.
CeilDiv(x, d) == IF x % d = 0 THEN x \div d ELSE (x \div d) + 1

\* delayMs(ms): the delayTicks of the marker it returns.
delayMs(m, rate, ms) == delay(m, CeilDiv(ms * rate, MsPerSecond))

\* getSystemStatus(): the fields that come from the TaskManager.
getSystemStatus(m) ==
  [currentTask |-> m.currentTask,
   readyTasks |-> Len(m.readyList),
   blockedTasks |-> Len(m.blockedList),
   suspendedTasks |-> Len(m.suspendedList),
   totalTasks |-> Cardinality(DOMAIN m.tasks)]

\* Scheduler.yield()
yield(m) == IF m.currentTask = NULL THEN m ELSE yieldCurrentTask(m)

\* What a task body does between two suspension points: at most one call of a
\* kernel operation (the body holds the kernel object).
NoOp == [op |-> "none", h |-> NULL, p |-> 0, g |-> FALSE]

KernelCalls(m) == {NoOp, [NoOp EXCEPT !.op = "yield"]}

Call(m, c) ==
  CASE c.op = "none"            -> m
    [] c.op = "yield"           -> yield(m)
    [] c.op = "suspendTask"     -> suspendTask(m, c.h)
    [] c.op = "resumeTask"      -> resumeTask(m, c.h)
    [] c.op = "deleteTask"      -> deleteTask(m, c.h)
    [] c.op = "setTaskPriority" -> setTaskPriority(m, c.h, c.p)
    [] c.op = "createTask"      -> createTask(m, c.p, c.g, "user")

\* The body of the idle task is fixed: this.yield().
Bodies(m, h) ==
  IF ~Live(m, h) THEN {NoOp}
  ELSE IF m.tasks[h].fn = "idleTask" THEN {[NoOp EXCEPT !.op = "yield"]}
  ELSE KernelCalls(m)

\* How a step ends: the generator returns (done), raises (throw), yields a
\* non-marker value (plain) or yields the value of delay(n).  A plain function
\* returns (plain); what it raises is caught and changes nothing.
Outcome(kind, n) == [kind |-> kind, n |-> n]

Outcomes(m, h) ==
  IF Live(m, h) /\ m.tasks[h].isGenerator
  THEN {Outcome("done", 0), Outcome("throw", 0)}
       \cup IF m.tasks[h].gen < MaxSteps
            THEN {Outcome("plain", 0)} \cup {Outcome("delay", n) : n \in DelayArgs}
            ELSE {}
  ELSE {Outcome("plain", 0)}

\* A generator branch that resumes the generator a second time after a yield.
stepTwice(m, h, out) ==
  IF out.kind \in {"done", "throw"} THEN deleteTask(m, h)
  ELSE IF Live(m, h) THEN SetField(m, h, "gen", m.tasks[h].gen + 2) ELSE m

\* A generator branch whose catch only logs what the generator raised.
keepOnThrow(m, h, out) ==
  IF out.kind = "done" THEN deleteTask(m, h)
  ELSE IF out.kind = "throw" THEN m
  ELSE LET m1 == IF Live(m, h) THEN SetField(m, h, "gen", m.tasks[h].gen + 1) ELSE m
           marker == IF out.kind = "delay" THEN delay(m, out.n) ELSE 0
       IN  IF marker # 0
           THEN blockTask(IF Live(m1, h) THEN SetField(m1, h, "delayTicks", marker) ELSE m1,
                          h, "delay")
           ELSE m1

\* The generator branch of runTask, after generator.next() has run the body.
afterNext(m, h, out) ==
  IF out.kind \in {"done", "throw"} THEN deleteTask(m, h)
  ELSE LET m1 == IF Live(m, h) THEN SetField(m, h, "gen", m.tasks[h].gen + 1) ELSE m
           marker == IF out.kind = "delay" THEN delay(m, out.n) ELSE 0
       IN  IF marker # 0
           THEN blockTask(IF Live(m1, h) THEN SetField(m1, h, "delayTicks", marker) ELSE m1,
                          h, "delay")
           ELSE m1

\* A runTask that deletes every task whose body returned, plain functions too.
dropReturned(m, h, body, out) ==
  IF ~Live(m, h) THEN m
  ELSE IF m.tasks[h].isGenerator THEN afterNext(Call(m, body), h, out)
  ELSE deleteTask(Call(m, body), h)

runTask(m, h, body, out) ==
  IF ~Live(m, h) THEN m
  ELSE IF m.tasks[h].isGenerator THEN afterNext(Call(m, body), h, out)
  ELSE Call(m, body)

\* The entry of readyTasks that schedule() picks.
PickIndex(readyTasks, idx) == (idx % Len(readyTasks)) + 1

\* The task switch of schedule(): the TaskManager as it is handed to runTask.
switchTo(m, idx, idle) ==
  LET readyTasks == m.readyList
  IN  IF Len(readyTasks) = 0
      THEN IF idle # NULL THEN setCurrentTask(m, idle) ELSE m
      ELSE LET nextTask == readyTasks[PickIndex(readyTasks, idx)]
               cur == m.currentTask
           IN  IF cur # nextTask
               THEN setCurrentTask(IF cur # NULL THEN yieldCurrentTask(m) ELSE m, nextTask)
               ELSE m

\* schedule(): the TaskManager afterwards, the new currentTaskIndex and the
\* handle whose body ran (NULL when none did).
schedule(m, idx, idle, body, out) ==
  LET readyTasks == m.readyList
      m1 == switchTo(m, idx, idle)
  IN  IF Len(readyTasks) = 0
      THEN IF idle # NULL
           THEN [m |-> runTask(m1, idle, body, out), idx |-> idx,
                 ran |-> IF Live(m, idle) THEN idle ELSE NULL]
           ELSE [m |-> m, idx |-> idx, ran |-> NULL]
      ELSE LET nextTask == readyTasks[PickIndex(readyTasks, idx)]
           IN  [m |-> runTask(m1, nextTask, body, out),
                idx |-> (idx + 1) % Len(readyTasks),
                ran |-> IF Live(m1, nextTask) THEN nextTask ELSE NULL]

\* The handle schedule() will hand to runTask.
Picked(m, idx, idle) ==
  IF Len(m.readyList) = 0 THEN idle ELSE m.readyList[PickIndex(m.readyList, idx)]

\* ------------------------------------------------- the selection, recorded
\* The READY tasks as schedule() finds them, and the head of the ready queue:
\* the first READY task of the list with the highest priority among them.
ReadyAt(m) == {h \in DOMAIN m.tasks : m.tasks[h].state = "ready"}

HeadAt(m) ==
  LET R == {i \in 1..Len(m.readyList) :
              Live(m, m.readyList[i]) /\ m.tasks[m.readyList[i]].state = "ready"}
      Best(i) == \A j \in R : \/ m.tasks[m.readyList[j]].priority
                                   < m.tasks[m.readyList[i]].priority
                               \/ /\ m.tasks[m.readyList[j]].priority
                                       = m.tasks[m.readyList[i]].priority
                                  /\ i <= j
  IN  IF R = {} THEN NULL ELSE m.readyList[CHOOSE i \in R : Best(i)]

NoSel == [ran |-> NULL, head |-> NULL, userReady |-> FALSE]

\* No step or delay call recorded; no suspend/resume pair recorded.
NoStep == [kind |-> "none", h |-> NULL, body |-> NoOp, out |-> Outcome("none", 0),
           marker |-> 0, inTask |-> FALSE, anyRunning |-> FALSE]

\* No task has been created from a function body.
NoUnit == [h |-> NULL, body |-> <<>>, all |-> FALSE, code |-> <<>>, results |-> <<>>]

NoSusp == [h |-> NULL, priority |-> 0, gen |-> 0, suspended |-> FALSE,
           resumed |-> FALSE, retSuspend |-> FALSE, retResume |-> FALSE, ticks |-> 0]

Selection(m, idle, ran) ==
  [ran |-> ran, head |-> HeadAt(m), userReady |-> ReadyAt(m) \ {idle} # {}]

\* ------------------------------------------------------------------ actions
EmptyTM == [tasks |-> <<>>, nextHandle |-> 1, currentTask |-> NULL,
            readyList |-> <<>>, blockedList |-> <<>>, suspendedList |-> <<>>]

\* new Scheduler(config): a fresh TaskManager, then setupIdleTask().
setupIdleTask(m) == createTask(m, 0, FALSE, "idleTask")

InitAt(rate) ==
  LET m == setupIdleTask(EmptyTM)
  IN  /\ tasks = m.tasks
      /\ nextHandle = m.nextHandle
      /\ currentTask = m.currentTask
      /\ readyList = m.readyList
      /\ blockedList = m.blockedList
      /\ suspendedList = m.suspendedList
      /\ idleTaskHandle = AllocHandle(EmptyTM)
      /\ isRunning = FALSE
      /\ tickCount = 0
      /\ tickInterval = FALSE
      /\ currentTaskIndex = 0
      /\ sel = NoSel
      /\ issued = <<AllocHandle(EmptyTM)>>
      /\ runLog = <<>>
      /\ unit = NoUnit
      /\ tickRate = rate
      /\ step = NoStep
      /\ susp = NoSusp

\* The configuration every test and every example uses: tickRate 10.
Init == InitAt(DefaultTickRate)

SchedulerUnchanged ==
  UNCHANGED <<isRunning, tickCount, tickInterval, currentTaskIndex, idleTaskHandle,
              tickRate>>

\* A public operation of the Scheduler that only calls the TaskManager.  A call
\* that leaves the TaskManager as it was (it returned false) is a stuttering step.
Public(m) ==
  /\ m # TM
  /\ SetTM(m)
  /\ SchedulerUnchanged
  /\ sel' = NoSel
  /\ UNCHANGED <<runLog, unit, step, susp>>

Issue(m) == issued' = Append(issued, AllocHandle(m))

\* The fields start() and stop() work on.
Sched == [isRunning |-> isRunning, tickCount |-> tickCount, tickInterval |-> tickInterval]

\* A start() that does not look at isRunning.
startAgain(s) == [isRunning |-> TRUE, tickCount |-> 0, tickInterval |-> TRUE]

start(s) ==
  IF s.isRunning THEN s
  ELSE [isRunning |-> TRUE, tickCount |-> 0, tickInterval |-> TRUE]

stop(s) ==
  IF ~s.isRunning THEN s
  ELSE [s EXCEPT !.isRunning = FALSE, !.tickInterval = FALSE]

SetSched(s) ==
  /\ isRunning' = s.isRunning
  /\ tickCount' = s.tickCount
  /\ tickInterval' = s.tickInterval

Start ==
  /\ ~isRunning
  /\ SetSched(start(Sched))
  /\ sel' = NoSel
  /\ UNCHANGED <<tasks, nextHandle, currentTask, readyList, blockedList, suspendedList,
                 currentTaskIndex, idleTaskHandle, issued, runLog, unit, tickRate, step, susp>>

Stop ==
  /\ isRunning
  /\ SetSched(stop(Sched))
  /\ sel' = NoSel
  /\ UNCHANGED <<tasks, nextHandle, currentTask, readyList, blockedList, suspendedList,
                 currentTaskIndex, idleTaskHandle, issued, runLog, unit, tickRate,
                 step, susp>>

\* The kernel's callers hand createTask generator functions (the facade turns
\* every body into one); the idle task is the one plain function.
CreateTask ==
  /\ nextHandle <= MaxHandle
  /\ \E p \in Priorities : Public(createTask(TM, p, TRUE, "user")) /\ Issue(TM)

DeleteTask ==
  \E h \in Handles : Live(TM, h) /\ Public(deleteTask(TM, h)) /\ UNCHANGED issued

SuspendTask ==
  \E h \in Handles : Live(TM, h) /\ Public(suspendTask(TM, h)) /\ UNCHANGED issued

ResumeTask ==
  \E h \in Handles : Live(TM, h) /\ Public(resumeTask(TM, h)) /\ UNCHANGED issued

SetTaskPriority ==
  \E h \in Handles, p \in Priorities :
    Live(TM, h) /\ Public(setTaskPriority(TM, h, p)) /\ UNCHANGED issued

Yield == Public(yield(TM)) /\ UNCHANGED issued

\* tick(): tickCount++, processDelayedTasks() (which leaves m1), schedule().
TickWith(m1, body, out) ==
  \E r \in {schedule(m1, currentTaskIndex, idleTaskHandle, body, out)} :
    /\ tickCount' = tickCount + 1
    /\ SetTM(r.m)
    /\ currentTaskIndex' = r.idx
    /\ sel' = Selection(m1, idleTaskHandle, r.ran)
    /\ UNCHANGED <<isRunning, tickInterval, idleTaskHandle, issued, tickRate>>

Tick ==
  /\ tickInterval
  /\ tickCount < MaxTicks
  /\ LET m1 == processDelayedTasks(TM)
         h == Picked(m1, currentTaskIndex, idleTaskHandle)
     IN  \E body \in Bodies(m1, h), out \in Outcomes(m1, h) : TickWith(m1, body, out)
  /\ UNCHANGED <<runLog, unit, step, susp>>

Next ==
  \/ Start
  \/ Stop
  \/ CreateTask
  \/ DeleteTask
  \/ SuspendTask
  \/ ResumeTask
  \/ SetTaskPriority
  \/ Yield
  \/ Tick

Spec == Init /\ [][Next]_vars

\* ------------------------------------------------ the run-order scenario
\* Generator tasks are created before start(); every step of theirs ends in a
\* plain yield (after calling yield() or not), so none ever blocks or ends; the
\* handle each tick advanced is appended to runLog.
RRCreate ==
  /\ ~isRunning
  /\ runLog = <<>>
  /\ nextHandle <= MaxRRTasks + 1
  /\ \E p \in Priorities : Public(createTask(TM, p, TRUE, "user")) /\ Issue(TM)

RRTick ==
  /\ tickInterval
  /\ Len(runLog) < MaxLog
  /\ LET m1 == processDelayedTasks(TM)
         h == Picked(m1, currentTaskIndex, idleTaskHandle)
     IN  \E body \in Bodies(m1, h) : TickWith(m1, body, Outcome("plain", 0))
  /\ runLog' = Append(runLog, sel'.ran)
  /\ UNCHANGED unit
  /\ UNCHANGED <<step, susp>>

NextRR ==
  \/ RRCreate
  \/ Start
  \/ RRTick

SpecRR == Init /\ [][NextRR]_vars

\* ------------------------------------------------ the preemption scenario
\* Up to two generator tasks are created before start(), each at priority PPLow
\* or PPHigh and of one of two kinds: every step of a "delayer" yields the value
\* of delay(PPDelay) and calls nothing else, every step of a "yielder" ends in a
\* plain yield (after calling yield() or not).  Nothing is suspended or deleted.
PPCreate ==
  /\ ~isRunning
  /\ runLog = <<>>
  /\ nextHandle <= MaxPPTasks + 1
  /\ \E p \in {PPLow, PPHigh}, kind \in {"delayer", "yielder"} :
       Public(createTask(TM, p, TRUE, kind)) /\ Issue(TM)

PPBodies(m, h) ==
  IF Live(m, h) /\ m.tasks[h].fn = "delayer" THEN {NoOp} ELSE Bodies(m, h)

PPOutcome(m, h) ==
  IF Live(m, h) /\ m.tasks[h].fn = "delayer"
  THEN Outcome("delay", PPDelay)
  ELSE Outcome("plain", 0)

PPTick ==
  /\ tickInterval
  /\ Len(runLog) < MaxPPTicks
  /\ LET m1 == processDelayedTasks(TM)
         h == Picked(m1, currentTaskIndex, idleTaskHandle)
     IN  \E body \in PPBodies(m1, h) : TickWith(m1, body, PPOutcome(m1, h))
  /\ runLog' = Append(runLog, sel'.ran)
  /\ UNCHANGED unit
  /\ UNCHANGED <<step, susp>>

NextPP ==
  \/ PPCreate
  \/ Start
  \/ PPTick

SpecPP == Init /\ [][NextPP]_vars

\* ------------------------------------------------- steps, recorded
\* A generator body can take any number of steps: each one returns, raises,
\* yields plainly or yields the value of delay(n).
AnyOutcomes(m, h) ==
  IF Live(m, h) /\ m.tasks[h].isGenerator
  THEN {Outcome("done", 0), Outcome("throw", 0), Outcome("plain", 0)}
       \cup {Outcome("delay", n) : n \in DelayArgs}
  ELSE {Outcome("plain", 0)}

AnyRunning(m) == \E h \in DOMAIN m.tasks : m.tasks[h].state = "running"

InTask(m) ==
  /\ m.currentTask # NULL
  /\ Live(m, m.currentTask)
  /\ m.tasks[m.currentTask].state = "running"

\* The step of task h in a tick that starts from m1 (the delays processed):
\* mc is the TaskManager at the point where the body evaluates delay(n).
StepOf(m1, h, body, out) ==
  LET mc == Call(switchTo(m1, currentTaskIndex, idleTaskHandle), body)
  IN  [kind |-> "step", h |-> h, body |-> body, out |-> out,
       marker |-> IF out.kind = "delay" THEN delay(mc, out.n) ELSE 0,
       inTask |-> InTask(mc) /\ mc.currentTask = h,
       anyRunning |-> AnyRunning(mc)]

\* A tick whose step is recorded.
StepTick ==
  /\ tickInterval
  /\ LET m1 == processDelayedTasks(TM)
         h == Picked(m1, currentTaskIndex, idleTaskHandle)
     IN  \E body \in Bodies(m1, h), out \in AnyOutcomes(m1, h) :
           /\ TickWith(m1, body, out)
           /\ step' = IF Live(m1, h) /\ m1.tasks[h].isGenerator
                      THEN StepOf(m1, h, body, out)
                      ELSE NoStep

\* delay(n) and delayMs(ms) called on the scheduler: they return a marker and
\* write nothing, so a second call in a row would return what the first did
\* and is left out.
DelayCall ==
  /\ step.kind \in {"none", "step"}
  /\ \E n \in DelayArgs :
       step' = [NoStep EXCEPT !.kind = "delay", !.out = Outcome("delay", n),
                              !.marker = delay(TM, n), !.inTask = InTask(TM),
                              !.anyRunning = AnyRunning(TM)]
  /\ UNCHANGED <<tasks, nextHandle, currentTask, readyList, blockedList, suspendedList,
                 isRunning, tickCount, tickInterval, currentTaskIndex, idleTaskHandle,
                 sel, issued, runLog, unit, tickRate, susp>>

DelayMsCall ==
  /\ step.kind \in {"none", "step"}
  /\ \E ms \in 0..MaxMs :
       step' = [NoStep EXCEPT !.kind = "delayMs", !.out = Outcome("delayMs", ms),
                              !.marker = delayMs(TM, tickRate, ms), !.inTask = InTask(TM),
                              !.anyRunning = AnyRunning(TM)]
  /\ UNCHANGED <<tasks, nextHandle, currentTask, readyList, blockedList, suspendedList,
                 isRunning, tickCount, tickInterval, currentTaskIndex, idleTaskHandle,
                 sel, issued, runLog, unit, tickRate, susp>>

\* ------------------------------------------- the delay-call specification
\* A scheduler of any tick rate with at most MaxMsTasks user tasks: ticks whose
\* steps are recorded, and calls of delay(n) and delayMs(ms) in between.
InitMs == \E rate \in 1..MaxTickRate : InitAt(rate)

MsCreate ==
  /\ nextHandle <= MaxMsTasks + 1
  /\ \E p \in Priorities : SetTM(createTask(TM, p, TRUE, "user"))
  /\ Issue(TM)
  /\ SchedulerUnchanged
  /\ sel' = NoSel
  /\ step' = NoStep
  /\ UNCHANGED <<runLog, unit, susp>>

MsStart ==
  /\ ~isRunning
  /\ SetSched(start(Sched))
  /\ sel' = NoSel
  /\ step' = NoStep
  /\ UNCHANGED <<tasks, nextHandle, currentTask, readyList, blockedList, suspendedList,
                 currentTaskIndex, idleTaskHandle, issued, runLog, unit, tickRate, susp>>

MsTick ==
  /\ tickCount < MaxMsTicks
  /\ StepTick
  /\ UNCHANGED <<runLog, unit, susp>>

NextMs ==
  \/ MsCreate
  \/ MsStart
  \/ MsTick
  \/ DelayCall
  \/ DelayMsCall

SpecMs == InitMs /\ [][NextMs]_vars

\* ------------------------------------------- the suspend/resume scenario
\* suspendTask(h) on a task that is not SUSPENDED, any number of ticks, then
\* resumeTask(h); susp keeps what h was when it was suspended and what the two
\* calls returned, and counts the ticks in between.  Between the two calls
\* only ticks (and start()) happen.
Pending == susp.suspended /\ ~susp.resumed

SRCreate ==
  /\ ~Pending
  /\ nextHandle <= MaxSRTasks + 1
  /\ \E p \in Priorities : SetTM(createTask(TM, p, TRUE, "user"))
  /\ Issue(TM)
  /\ SchedulerUnchanged
  /\ sel' = NoSel
  /\ step' = NoStep
  /\ susp' = NoSusp
  /\ UNCHANGED <<runLog, unit>>

SRStart ==
  /\ ~isRunning
  /\ SetSched(start(Sched))
  /\ sel' = NoSel
  /\ step' = NoStep
  /\ susp' = IF susp.resumed THEN NoSusp ELSE susp
  /\ UNCHANGED <<tasks, nextHandle, currentTask, readyList, blockedList, suspendedList,
                 currentTaskIndex, idleTaskHandle, issued, runLog, unit, tickRate>>

SRTick ==
  /\ tickCount < MaxSRTicks
  /\ StepTick
  /\ susp' = IF susp.resumed THEN NoSusp
             ELSE IF Pending THEN [susp EXCEPT !.ticks = susp.ticks + 1]
             ELSE susp
  /\ UNCHANGED <<runLog, unit>>

SRSuspend ==
  /\ ~Pending
  /\ \E h \in DOMAIN tasks :
       /\ tasks[h].state # "suspended"
       /\ SetTM(suspendTask(TM, h))
       /\ susp' = [h |-> h, priority |-> tasks[h].priority, gen |-> tasks[h].gen,
                   suspended |-> TRUE, resumed |-> FALSE,
                   retSuspend |-> suspendTaskRet(TM, h), retResume |-> FALSE,
                   ticks |-> 0]
  /\ SchedulerUnchanged
  /\ sel' = NoSel
  /\ step' = NoStep
  /\ UNCHANGED <<issued, runLog, unit>>

SRResume ==
  /\ Pending
  /\ SetTM(resumeTask(TM, susp.h))
  /\ susp' = [susp EXCEPT !.resumed = TRUE, !.retResume = resumeTaskRet(TM, susp.h)]
  /\ SchedulerUnchanged
  /\ sel' = NoSel
  /\ step' = NoStep
  /\ UNCHANGED <<issued, runLog, unit>>

NextSR ==
  \/ SRCreate
  \/ SRStart
  \/ SRTick
  \/ SRSuspend
  \/ SRResume

SpecSR == Init /\ [][NextSR]_vars

\* ------------------------------------------------- the step specification
\* Up to MaxStepTasks generator tasks whose steps end in any way (they return,
\* raise, yield, or yield a delay), and unblockTask called on the TaskManager
\* itself, as the TaskManager tests call it.
StCreate ==
  /\ nextHandle <= MaxStepTasks + 1
  /\ \E p \in Priorities : SetTM(createTask(TM, p, TRUE, "user"))
  /\ Issue(TM)
  /\ SchedulerUnchanged
  /\ sel' = NoSel
  /\ step' = NoStep
  /\ UNCHANGED <<runLog, unit, susp>>

StTick ==
  /\ tickCount < MaxStepTicks
  /\ StepTick
  /\ UNCHANGED <<runLog, unit, susp>>

\* taskManager.unblockTask(h); step records the call and what it returned.
StUnblock ==
  /\ \E h \in DOMAIN tasks :
       /\ SetTM(unblockTask(TM, h))
       /\ step' = [NoStep EXCEPT !.kind = "unblockTask", !.h = h,
                                 !.inTask = unblockTaskRet(TM, h)]
  /\ SchedulerUnchanged
  /\ sel' = NoSel
  /\ UNCHANGED <<issued, runLog, unit, susp>>

NextStep ==
  \/ StCreate
  \/ MsStart
  \/ StTick
  \/ StUnblock

SpecStep == Init /\ [][NextStep]_vars

\* ------------------------------------------------- the idle specification
\* A kernel that is started and stopped at will, with the idle task and at
\* most MaxIdleTasks user tasks that come and go.  The interval timer set by
\* start() fires again and again until stop() clears it: a tick that can
\* happen for ever does happen.
IdleCreate ==
  /\ nextHandle <= MaxIdleTasks + 1
  /\ \E p \in Priorities : Public(createTask(TM, p, TRUE, "user")) /\ Issue(TM)

IdleTick ==
  /\ tickInterval
  /\ tickCount < MaxIdleTicks
  /\ \E m1 \in {processDelayedTasks(TM)} :
       \E h \in {Picked(m1, currentTaskIndex, idleTaskHandle)} :
         \E body \in Bodies(m1, h), out \in Outcomes(m1, h) : TickWith(m1, body, out)
  /\ UNCHANGED <<runLog, unit, step, susp>>

NextIdle ==
  \/ Start
  \/ Stop
  \/ IdleCreate
  \/ DeleteTask
  \/ SuspendTask
  \/ ResumeTask
  \/ IdleTick

SpecIdle == Init /\ [][NextIdle]_vars /\ WF_vars(IdleTick)

\* --------------------------------------------- the rotation specification
\* The tasks of the preemption scenario as loops that never end: a "delayer"
\* is `while (true) { yield delay(n) }` with n in 1..MaxFairDelay, a
\* "yielder" is `while (true) { yield }`.  The generator of such a task is at
\* the same suspension point after every step, so its position stays at 1
\* once it has started.  The kernel is stopped and started at will; start()
\* sets tickCount back to 0, so there are runs with ticks for ever.
FairOutcomes(m, h) ==
  IF Live(m, h) /\ m.tasks[h].fn = "delayer"
  THEN {Outcome("delay", n) : n \in 1..MaxFairDelay}
  ELSE {Outcome("plain", 0)}

AtLoopHead(m) ==
  [m EXCEPT !.tasks = [x \in DOMAIN m.tasks |->
                         [m.tasks[x] EXCEPT !.gen = IF @ > 1 THEN 1 ELSE @]]]

FairTick ==
  /\ tickInterval
  /\ tickCount < MaxFairTicks
  /\ \E m1 \in {processDelayedTasks(TM)} :
       \E h \in {Picked(m1, currentTaskIndex, idleTaskHandle)} :
         \E body \in PPBodies(m1, h), out \in FairOutcomes(m1, h) :
           \E r \in {schedule(m1, currentTaskIndex, idleTaskHandle, body, out)} :
             /\ tickCount' = tickCount + 1
             /\ SetTM(AtLoopHead(r.m))
             /\ currentTaskIndex' = r.idx
             /\ sel' = Selection(m1, idleTaskHandle, r.ran)
  /\ UNCHANGED <<isRunning, tickInterval, idleTaskHandle, issued, tickRate, runLog, unit,
                 step, susp>>

NextFair ==
  \/ PPCreate
  \/ Start
  \/ Stop
  \/ FairTick

\* The interval timer fires as long as it is set: a tick that can be taken is
\* taken.
SpecFair == Init /\ [][NextFair]_vars /\ WF_vars(FairTick)

\* ------------------------------------------------- the transformer (RTOSParser)
\* A function body is a sequence of top-level expression statements.  A
\* statement is a call param.delay(n) or another expression; two statements
\* have the same source text exactly when they are the same record, and no
\* text is part of another.  The parameter is named rtos, as in every test and
\* example, and every delay call is made on it (hasValidDelayCalls holds).
MaxArg == 2
MaxExprs == 2
MaxBody == 4
MaxParseTicks == 12

Stmt(kind, n) == [kind |-> kind, n |-> n]

Stmts == {Stmt("delay", n) : n \in 1..MaxArg} \cup {Stmt("expr", n) : n \in 1..MaxExprs}

FunctionBodies == UNION {[1..k -> Stmts] : k \in 0..MaxBody}

isDelayCall(s) == s.kind = "delay"

hasDelayCallInAST(body) == \E i \in DOMAIN body : isDelayCall(body[i])

\* The code as text: each statement with the number of yield keywords that
\* stand in front of it.
Source(body) == [i \in DOMAIN body |-> [stmt |-> body[i], yields |-> 0]]

\* The position String.prototype.replace finds: the first place where the
\* text occurs, whatever has been inserted in front of it before.
FirstOccurrence(code, from) ==
  IF \E i \in DOMAIN code : code[i].stmt = from
  THEN CHOOSE i \in DOMAIN code :
         code[i].stmt = from /\ \A j \in 1..(i - 1) : code[j].stmt # from
  ELSE 0

\* result.replace(from, 'yield ' + from)
replace(code, from) ==
  LET i == FirstOccurrence(code, from)
  IN  IF i = 0 THEN code ELSE [code EXCEPT ![i].yields = @ + 1]

\* The nodes the walk collects, in source order: every expression statement
\* in statement-level mode (all), the delay calls otherwise.
replacements(body, all) ==
  LET RECURSIVE collect(_)
      collect(i) ==
        IF i > Len(body) THEN <<>>
        ELSE IF all \/ isDelayCall(body[i])
             THEN <<[from |-> body[i]]>> \o collect(i + 1)
             ELSE collect(i + 1)
  IN  collect(1)

\* replacements.reverse().forEach(...): the last replacement is applied first.
applyReplacement(code, r) == replace(code, r.from)

parseAndTransformToGenerator(body, all) ==
  LET reps == replacements(body, all)
      RECURSIVE applyFrom(_, _)
      applyFrom(code, k) ==
        IF k = 0 THEN code ELSE applyFrom(applyReplacement(code, reps[k]), k - 1)
  IN  applyFrom(Source(body), Len(reps))

\* A transformer that rewrites every statement of every body.
transformAlways(body, all) == parseAndTransformToGenerator(body, TRUE)

\* transformTaskFunction: the body of the generator function it returns.
transformTaskFunction(body, all) ==
  IF ~hasDelayCallInAST(body) THEN Source(body)
  ELSE parseAndTransformToGenerator(body, all)

\* What one call of next() returns, and the statements it executed (ran).
Result(done, value, n, ran) == [done |-> done, value |-> value, n |-> n, ran |-> ran]

\* The generator run to its end: the results of its calls of next(), in order.
\* A statement without yield runs on within the step; yield in front of a
\* statement executes it and suspends with its value (the marker of delay(n));
\* every further yield in front of it suspends once more, with undefined, and
\* executes nothing.
RunUnit(code) ==
  LET RECURSIVE run(_, _)
      run(i, acc) ==
        IF i > Len(code) THEN <<Result(TRUE, "undefined", 0, acc)>>
        ELSE IF code[i].yields = 0 THEN run(i + 1, Append(acc, code[i].stmt))
        ELSE <<Result(FALSE,
                      IF isDelayCall(code[i].stmt) THEN "marker" ELSE "value",
                      IF isDelayCall(code[i].stmt) THEN code[i].stmt.n ELSE 0,
                      Append(acc, code[i].stmt))>>
             \o [k \in 1..(code[i].yields - 1) |-> Result(FALSE, "undefined", 0, <<>>)]
             \o run(i + 1, <<>>)
  IN  run(1, <<>>)

\* generator.next(), called for the k-th time.
next(code, k) == RunUnit(code)[k]

\* How runTask sees the result of next().
OutcomeOf(res) ==
  IF res.done THEN Outcome("done", 0)
  ELSE IF res.value = "marker" THEN Outcome("delay", res.n)
  ELSE Outcome("plain", 0)

IsUnit(m, h) == Live(m, h) /\ m.tasks[h].fn = "unit"

UnitBodies(m, h) == IF IsUnit(m, h) THEN {NoOp} ELSE Bodies(m, h)

UnitOutcome(m, h) ==
  IF IsUnit(m, h) THEN OutcomeOf(next(unit.code, m.tasks[h].gen + 1))
  ELSE Outcome("plain", 0)

\* RTOS.createTask(taskFunction, priority) of a parser in either mode: the
\* function is transformed and the generator function is handed to the
\* scheduler.
RtosCreateTask ==
  /\ unit.h = NULL
  /\ \E body \in FunctionBodies, all \in BOOLEAN, p \in Priorities :
       /\ SetTM(createTask(TM, p, TRUE, "unit"))
       /\ unit' = [h |-> AllocHandle(TM), body |-> body, all |-> all,
                   code |-> transformTaskFunction(body, all), results |-> <<>>]
  /\ Issue(TM)
  /\ SchedulerUnchanged
  /\ sel' = NoSel
  /\ UNCHANGED <<runLog, step, susp>>

\* A tick; the task created from the body is advanced by next().
ParseTick ==
  /\ tickInterval
  /\ tickCount < MaxParseTicks
  /\ \E m1 \in {processDelayedTasks(TM)} :
       \E h \in {Picked(m1, currentTaskIndex, idleTaskHandle)} :
         \E body \in UnitBodies(m1, h), out \in {UnitOutcome(m1, h)} :
           /\ TickWith(m1, body, out)
           /\ unit' = IF IsUnit(m1, h)
                      THEN [unit EXCEPT !.results =
                              Append(@, next(unit.code, m1.tasks[h].gen + 1))]
                      ELSE unit
  /\ UNCHANGED <<runLog, step, susp>>

NextParse ==
  \/ RtosCreateTask
  \/ Start
  \/ ParseTick

SpecParse == Init /\ [][NextParse]_vars

\* --------------------------------------------------------------- typing
TypeOK ==
  /\ DOMAIN tasks \subseteq Handles
  /\ \A h \in DOMAIN tasks :
       /\ tasks[h].state \in {"ready", "running", "blocked", "suspended"}
       /\ tasks[h].priority \in Priorities
       /\ tasks[h].gen \in 0..MaxSteps
  /\ nextHandle \in 1..(MaxHandle + 1)
  /\ currentTask \in {NULL} \cup Handles
  /\ tickCount \in 0..MaxTicks
  /\ tickInterval \in BOOLEAN
  /\ runLog = <<>>
  /\ unit = NoUnit
  /\ tickRate = DefaultTickRate
  /\ step = NoStep
  /\ susp = NoSusp

\* ------------------------------------------------------------ the claims
Count(s, h) == Cardinality({i \in 1..Len(s) : s[i] = h})

\* C1: on every tick in which some task is READY at the selection, the task
\* advanced is the head of the ready queue: the READY task of the highest
\* priority and, among those, the one longest in the list.
C1_AdvancesReadyHead == sel.head # NULL => sel.ran = sel.head

\* C2: a tick advances the idle task only if no user task is READY at the
\* selection, and advances a user task whenever one is.
C2_IdleOnlyWhenNoneReady ==
  /\ sel.ran = idleTaskHandle /\ sel.ran # NULL => ~sel.userReady
  /\ sel.userReady => sel.ran # NULL /\ sel.ran # idleTaskHandle

\* C3: the state field of every task agrees with the list that holds its
\* handle: READY iff in readyList, BLOCKED iff in blockedList, SUSPENDED iff in
\* suspendedList.
C3_StateMatchesLists ==
  \A h \in DOMAIN tasks :
    /\ tasks[h].state = "ready" <=> Includes(readyList, h)
    /\ tasks[h].state = "blocked" <=> Includes(blockedList, h)
    /\ tasks[h].state = "suspended" <=> Includes(suspendedList, h)

\* C4: every live task is in exactly one place: once in exactly one of the
\* three lists, or it is the running task and in no list.
C4_ExactlyOnePlace ==
  \A h \in DOMAIN tasks :
    LET n == Count(readyList, h) + Count(blockedList, h) + Count(suspendedList, h)
        running == currentTask = h /\ tasks[h].state = "running"
    IN  (n = 1 /\ ~running) \/ (n = 0 /\ running)

\* C5: the ready list is in non-increasing priority order, so that getNextTask
\* returns a task of maximal priority among the listed ones.
C5_ReadyListSorted ==
  /\ \A i, j \in 1..Len(readyList) :
       i < j /\ Live(TM, readyList[i]) /\ Live(TM, readyList[j])
         => tasks[readyList[i]].priority >= tasks[readyList[j]].priority
  /\ \A i \in 1..Len(readyList) :
       Live(TM, getNextTask(TM)) /\ Live(TM, readyList[i])
         => tasks[getNextTask(TM)].priority >= tasks[readyList[i]].priority

\* C6: the idle task created by the constructor stays live, and its state is
\* READY or RUNNING, never BLOCKED or SUSPENDED.
C6_IdleAlwaysThere ==
  /\ Cardinality({h \in DOMAIN tasks : tasks[h].fn = "idleTask"}) = 1
  /\ Live(TM, idleTaskHandle)
  /\ tasks[idleTaskHandle].state \in {"ready", "running"}

\* C7: no task ever has a negative delayTicks, whatever integer its body
\* passes to delay(n).
C7_DelayNonNegative == \A h \in DOMAIN tasks : tasks[h].delayTicks >= 0

\* C8: a task with delayTicks > 0 is BLOCKED.
C8_DelayImpliesBlocked ==
  \A h \in DOMAIN tasks : tasks[h].delayTicks > 0 => tasks[h].state = "blocked"

\* C9: the handles createTask returns are non-zero and strictly increasing in
\* creation order: no two tasks, live or deleted, ever share one.
C9_HandlesNeverReused ==
  /\ \A i \in 1..Len(issued) : issued[i] # NULL
  /\ \A i, j \in 1..Len(issued) : i < j => issued[i] < issued[j]
  /\ \A h \in DOMAIN tasks : Count(issued, h) = 1

\* C9 witness: a handle has been handed out after an earlier task was deleted.
C9_Witness ==
  /\ Len(issued) >= 3
  /\ \E i \in 1..(Len(issued) - 1) : ~Live(TM, issued[i])
  /\ Live(TM, issued[Len(issued)])

\* C10: tasks A, B, C created in that order at one priority above the idle
\* task's, every step a plain yield: the ticks advance A, B, C, A, B, C, ... and
\* nothing else in between.
C10_RoundRobinABC ==
  (/\ Len(issued) = 4
   /\ \A i \in 2..4 : /\ Live(TM, issued[i])
                      /\ tasks[issued[i]].priority = tasks[issued[2]].priority
                      /\ tasks[issued[i]].priority > 0)
    => \A k \in 1..Len(runLog) : runLog[k] = issued[2 + ((k - 1) % 3)]

\* C11: task A (priority PPHigh, every step yields delay(PPDelay)) and task B
\* (priority PPLow, plain yields), created in that order: tick 1 advances A and
\* leaves it BLOCKED, ticks 2 to 5 advance B, tick 6 advances A, tick 7 B.
C11_Expected(k) == IF k = 1 \/ k = PPDelay + 1 THEN issued[2] ELSE issued[3]

C11_PreemptionTrace ==
  (/\ Len(issued) = 3
   /\ Live(TM, issued[2]) /\ Live(TM, issued[3])
   /\ tasks[issued[2]].fn = "delayer" /\ tasks[issued[2]].priority = PPHigh
   /\ tasks[issued[3]].fn = "yielder" /\ tasks[issued[3]].priority = PPLow)
    => /\ \A k \in 1..Len(runLog) : runLog[k] = C11_Expected(k)
       /\ Len(runLog) = 1 => tasks[issued[2]].state = "blocked"

\* C13: a tick decrements the delayTicks of every BLOCKED task by one and
\* unblocks those that reach 0 before it selects: a task that blocked with
\* delay PPDelay in tick t is BLOCKED, with PPDelay - k ticks left, after tick
\* t + k for k < PPDelay, and after tick t + PPDelay it is READY with none left
\* or is the task that tick advanced.
LastRun(h) ==
  IF \E k \in 1..Len(runLog) : runLog[k] = h
  THEN CHOOSE k \in 1..Len(runLog) : runLog[k] = h /\ \A j \in (k + 1)..Len(runLog) : runLog[j] # h
  ELSE 0

C13_DecrementThenSelect ==
  \A h \in DOMAIN tasks :
    tasks[h].fn = "delayer" /\ LastRun(h) > 0
      => LET k == Len(runLog) - LastRun(h)
         IN  /\ k < PPDelay => /\ tasks[h].state = "blocked"
                               /\ tasks[h].delayTicks = PPDelay - k
                               /\ Includes(blockedList, h)
             /\ k >= PPDelay => /\ tasks[h].state = "ready"
                                /\ tasks[h].delayTicks = 0
                                /\ Includes(readyList, h)

\* C13 witness: a delaying task that blocked in tick 1 has been unblocked by
\* tick 1 + PPDelay, which advanced another task.
C13_Witness ==
  \E h \in DOMAIN tasks :
    /\ tasks[h].fn = "delayer" /\ LastRun(h) = 1
    /\ Len(runLog) = 1 + PPDelay
    /\ runLog[Len(runLog)] # h
    /\ tasks[h].state = "ready" /\ tasks[h].delayTicks = 0

\* C12: when the RUNNING task yields, by a call of yield() or by being switched
\* out by the next tick, it becomes READY and stands in the ready list after
\* every other READY task of its priority and before every READY task of a
\* lower priority.
AtBandTail(m, h) ==
  LET i == IndexOf(m.readyList, h)
  IN  /\ i # 0
      /\ \A j \in 1..Len(m.readyList) :
           LET o == m.readyList[j]
           IN  o # h /\ Live(m, o) /\ m.tasks[o].state = "ready"
                 => /\ m.tasks[o].priority = m.tasks[h].priority => j < i
                    /\ m.tasks[o].priority < m.tasks[h].priority => j > i

C12_YieldToBandTail ==
  [][\A h \in DOMAIN tasks :
       currentTask = h /\ tasks[h].state = "running"
         => /\ (/\ tickCount' = tickCount
                /\ currentTask' = NULL
                /\ h \in DOMAIN tasks' /\ tasks'[h].state = "ready")
              => AtBandTail(TM', h)
            /\ (/\ tickCount' = tickCount + 1
                /\ Len(processDelayedTasks(TM).readyList) > 0
                /\ Picked(processDelayedTasks(TM), currentTaskIndex, idleTaskHandle) # h)
              => /\ yieldCurrentTask(processDelayedTasks(TM)).tasks[h].state = "ready"
                 /\ AtBandTail(yieldCurrentTask(processDelayedTasks(TM)), h)]_vars

\* C19: deleteTask, suspendTask, resumeTask, blockTask, unblockTask and
\* setTaskPriority return false and change nothing (no task's state, priority
\* or delayTicks, none of the three lists) when the handle does not exist or
\* the transition is illegal: suspend of a SUSPENDED task, resume of a task
\* that is not SUSPENDED, block of a task that is neither READY nor RUNNING,
\* unblock of a task that is not BLOCKED.
C19_IllegalCallsChangeNothing ==
  \A h \in 1..(MaxHandle + 1) :
    /\ ~Live(TM, h)
         => /\ ~deleteTaskRet(TM, h) /\ deleteTask(TM, h) = TM
            /\ ~suspendTaskRet(TM, h) /\ suspendTask(TM, h) = TM
            /\ ~resumeTaskRet(TM, h) /\ resumeTask(TM, h) = TM
            /\ ~blockTaskRet(TM, h) /\ blockTask(TM, h, "delay") = TM
            /\ ~unblockTaskRet(TM, h) /\ unblockTask(TM, h) = TM
            /\ ~setTaskPriorityRet(TM, h)
            /\ \A p \in Priorities : setTaskPriority(TM, h, p) = TM
    /\ Live(TM, h) /\ tasks[h].state = "suspended"
         => ~suspendTaskRet(TM, h) /\ suspendTask(TM, h) = TM
    /\ Live(TM, h) /\ tasks[h].state # "suspended"
         => ~resumeTaskRet(TM, h) /\ resumeTask(TM, h) = TM
    /\ Live(TM, h) /\ tasks[h].state \notin {"ready", "running"}
         => ~blockTaskRet(TM, h) /\ blockTask(TM, h, "delay") = TM
    /\ Live(TM, h) /\ tasks[h].state # "blocked"
         => ~unblockTaskRet(TM, h) /\ unblockTask(TM, h) = TM

\* C19 witness: a deleted handle, a SUSPENDED task and a BLOCKED task exist
\* together, so every illegal call of the claim can be made.
C19_Witness ==
  /\ \E h \in 1..(nextHandle - 1) : ~Live(TM, h)
  /\ \E h \in DOMAIN tasks : tasks[h].state = "suspended"
  /\ \E h \in DOMAIN tasks : tasks[h].state = "blocked"

\* C14: a step of the advanced task that yields the value of delay(n) with
\* n > 0 leaves the task BLOCKED with delayTicks = n and blockedOn = "delay",
\* also when its body called a kernel operation (yield()) before.
C14_DelayStepBlocks ==
  step.kind = "step" /\ step.out.kind = "delay" /\ step.out.n > 0
    => /\ Live(TM, step.h)
       /\ tasks[step.h].state = "blocked"
       /\ tasks[step.h].delayTicks = step.out.n
       /\ tasks[step.h].blockedOn = "delay"
       /\ Includes(blockedList, step.h)

\* C16: delay(n) called from a running task returns a marker with
\* delayTicks = max(0, n), for negative n too.
C16_DelayClamped ==
  step.kind \in {"step", "delay"} /\ step.out.kind = "delay" /\ step.inTask
    => step.marker = IF step.out.n < 0 THEN 0 ELSE step.out.n

\* C17: delayMs(ms) called from a running task returns the marker of
\* delay(t), where t is the least integer with t * 1000 >= ms * tickRate;
\* with tickRate = 10, delayMs(250) gives delayTicks = 3.
C17_DelayMsCeil ==
  step.kind = "delayMs" /\ step.inTask
    => /\ \E t \in 0..(MaxMs * MaxTickRate) :
            /\ t * MsPerSecond >= step.out.n * tickRate
            /\ (t - 1) * MsPerSecond < step.out.n * tickRate
            /\ step.marker = delay(TM, t)
            /\ step.marker = t
       /\ tickRate = 10 /\ step.out.n = 250 => step.marker = 3

\* C17 witness: delayMs(250) has been called from a running task of a
\* scheduler with tickRate 10 and has returned delayTicks = 3.
C17_Witness ==
  /\ step.kind = "delayMs" /\ step.inTask
  /\ tickRate = 10 /\ step.out.n = 250 /\ step.marker = 3

\* C18: in a state in which no task is RUNNING, delay(n) and delayMs(ms)
\* return a marker with delayTicks = 0.
C18_NoTaskNoDelay ==
  step.kind \in {"delay", "delayMs"} /\ ~step.anyRunning => step.marker = 0

\* C15: a step that yields delay(0) never blocks the task: after it the task
\* is not in the blocked list, its delayTicks is 0, and it is in the ready list
\* for the next tick's selection as after a plain yield.
C15_DelayZeroIsYield ==
  step.kind = "step" /\ step.out.kind = "delay" /\ step.out.n = 0
    => /\ Live(TM, step.h)
       /\ ~Includes(blockedList, step.h)
       /\ tasks[step.h].state # "blocked"
       /\ tasks[step.h].delayTicks = 0
       /\ Includes(readyList, step.h)

IsTick == tickCount' = tickCount + 1

\* C21: no tick runs the body of a task that is SUSPENDED (the idle task
\* included) or advances its generator, and a tick leaves it SUSPENDED.
C21_SuspendedNotScheduled ==
  [][IsTick =>
       \A h \in DOMAIN tasks :
         tasks[h].state = "suspended"
           => /\ sel'.ran # h
              /\ h \in DOMAIN tasks'
              /\ tasks'[h].state = "suspended"
              /\ tasks'[h].gen = tasks[h].gen]_vars

\* C23: once deleteTask(h) has returned true or h's step has returned done, h
\* is in no list and not in the running slot, and no tick advances it.
C23_DeletedIsGone ==
  \A h \in 1..(nextHandle - 1) :
    ~Live(TM, h)
      => /\ ~Includes(readyList, h)
         /\ ~Includes(blockedList, h)
         /\ ~Includes(suspendedList, h)
         /\ currentTask # h
         /\ getSystemStatus(TM).currentTask # h

\* C24: the tick count never decreases, whatever start, stop and ticks do,
\* and a step that changes it adds exactly 1.
C24_TickCountMonotonic ==
  [][/\ tickCount' >= tickCount
     /\ tickCount' # tickCount => tickCount' = tickCount + 1]_vars

\* C26: getSystemStatus().currentTask is null or the handle of a live task in
\* state RUNNING, and the four counts are the sizes of the three lists and of
\* the task table.
C26_StatusCurrentIsRunning ==
  LET status == getSystemStatus(TM)
  IN  /\ \/ status.currentTask = NULL
         \/ /\ Live(TM, status.currentTask)
            /\ tasks[status.currentTask].state = "running"
      /\ status.readyTasks = Len(readyList)
      /\ status.blockedTasks = Len(blockedList)
      /\ status.suspendedTasks = Len(suspendedList)
      /\ status.totalTasks = Cardinality(DOMAIN tasks)

\* C30: when a tick advances a task, that task is the current task and its
\* state is RUNNING at the moment its step starts, also when it was already
\* in the running slot.
C30_AdvancedIsRunning ==
  [][IsTick =>
       LET m1 == processDelayedTasks(TM)
           h == Picked(m1, currentTaskIndex, idleTaskHandle)
           ms == switchTo(m1, currentTaskIndex, idleTaskHandle)
       IN  h # NULL /\ Live(m1, h)
             => ms.currentTask = h /\ ms.tasks[h].state = "running"]_vars

\* C25: start() on a running kernel and stop() on a stopped one change
\* nothing (isRunning, tickCount and the interval timer; they touch no task);
\* the timer is set exactly while isRunning is true, ticks happen only then,
\* and isRunning changes only by a start() or a stop().
C25_StartStopNoOps ==
  /\ [](isRunning => start(Sched) = Sched)
  /\ [](~isRunning => stop(Sched) = Sched)
  /\ [](tickInterval <=> isRunning)
  /\ [][/\ IsTick => isRunning /\ isRunning'
        /\ ~isRunning /\ isRunning' => Sched' = start(Sched) /\ TM' = TM
        /\ isRunning /\ ~isRunning' => Sched' = stop(Sched) /\ TM' = TM]_vars

\* C25 witness: a running kernel that has ticked, where a start() that took
\* effect would be visible.
C25_Witness == isRunning /\ tickInterval /\ tickCount >= 1 /\ sel.ran # NULL

\* C29: a tick advances at most one task, the one it selected, by exactly
\* one step; a task that its step left BLOCKED was advanced once and is out of
\* the ready list; outside a tick no generator position changes.
C29_OneStepPerTick ==
  [][LET both == DOMAIN tasks \cap DOMAIN tasks'
         stepped == {h \in both : tasks'[h].gen # tasks[h].gen}
         m1 == processDelayedTasks(TM)
     IN  /\ ~IsTick => stepped = {}
         /\ IsTick =>
              /\ Cardinality(stepped) <= 1
              /\ stepped \subseteq {sel'.ran}
              /\ (DOMAIN tasks \ DOMAIN tasks') \subseteq {sel'.ran}
              /\ \A h \in stepped : tasks'[h].gen = tasks[h].gen + 1
              /\ \A h \in both :
                   m1.tasks[h].state # "blocked" /\ tasks'[h].state = "blocked"
                   => /\ h = sel'.ran
                      /\ tasks'[h].gen = tasks[h].gen + 1
                      /\ ~Includes(readyList', h)]_vars

\* C29 witness: the last tick advanced a generator task that is now BLOCKED
\* one step on, while another generator task waits READY at its start.
C29_Witness ==
  \E h \in DOMAIN tasks, o \in DOMAIN tasks :
     /\ h # o /\ sel.ran = h
     /\ tasks[h].isGenerator /\ tasks[h].state = "blocked" /\ tasks[h].gen = 1
     /\ tasks[o].isGenerator /\ tasks[o].state = "ready" /\ tasks[o].gen = 0
     /\ Includes(readyList, o)

\* What is left of a list when every entry h is taken out.
Without(list, h) == SelectSeq(list, LAMBDA x : x # h)

\* C22: when the step of a generator task raises, the tick completes, the
\* task is gone from the task table and from the three lists, and every other
\* task is as the tick handed it to the step (state, priority, delayTicks,
\* generator position) and stands in the lists where it stood.
C22_ErrorIsolation ==
  [][step'.kind = "step" /\ step'.out.kind = "throw" =>
       LET h == step'.h
           ms == switchTo(processDelayedTasks(TM), currentTaskIndex, idleTaskHandle)
       IN  /\ IsTick
           /\ DOMAIN tasks' = DOMAIN ms.tasks \ {h}
           /\ ~Includes(readyList', h)
           /\ ~Includes(blockedList', h)
           /\ ~Includes(suspendedList', h)
           /\ \A o \in DOMAIN tasks' : tasks'[o] = ms.tasks[o]
           /\ readyList' = Without(ms.readyList, h)
           /\ blockedList' = Without(ms.blockedList, h)
           /\ suspendedList' = Without(ms.suspendedList, h)]_vars

\* C22 witness: the last step raised, its task is gone, and another generator
\* task that has already made a step is still there, READY in the ready list.
C22_Witness ==
  /\ step.kind = "step" /\ step.out.kind = "throw"
  /\ step.h \notin DOMAIN tasks
  /\ \E o \in DOMAIN tasks :
       /\ tasks[o].isGenerator /\ tasks[o].gen >= 1
       /\ tasks[o].state = "ready" /\ Includes(readyList, o)

\* C28: unblockTask(h) that returns true for a task blocked by a delay
\* leaves h READY, in the ready list, out of the blocked list, with blockedOn
\* null and delayTicks 0.
C28_UnblockClearsDelay ==
  [][\A h \in DOMAIN tasks :
       /\ step'.kind = "unblockTask" /\ step'.h = h /\ step'.inTask
       /\ tasks[h].state = "blocked" /\ tasks[h].blockedOn = "delay"
       => /\ h \in DOMAIN tasks'
          /\ tasks'[h].state = "ready"
          /\ Includes(readyList', h)
          /\ ~Includes(blockedList', h)
          /\ tasks'[h].blockedOn = "null"
          /\ tasks'[h].delayTicks = 0]_vars

\* The idle task is alive and no other task is.
OnlyIdle == idleTaskHandle # NULL /\ DOMAIN tasks = {idleTaskHandle}

\* C27: with only the idle task alive, a tick runs the idle task and leaves
\* it alive and READY or RUNNING, and while the kernel is running with only
\* the idle task the tick count goes on to its next value (the tick is never
\* stuck: it is the one step the fairness condition asks for).
C27_IdleKeepsTicking ==
  /\ [][IsTick /\ OnlyIdle =>
         /\ sel'.ran = idleTaskHandle
         /\ OnlyIdle'
         /\ tasks'[idleTaskHandle].state \in {"ready", "running"}]_vars
  /\ \A k \in 0..(MaxIdleTicks - 1) :
       (OnlyIdle /\ isRunning /\ tickCount = k)
         ~> (tickCount = k + 1 \/ ~isRunning \/ ~OnlyIdle)

\* C27 witness: a running kernel whose only task is the idle task, after
\* MaxIdleTicks ticks of which the last ran the idle task.
C27_Witness ==
  /\ OnlyIdle /\ isRunning
  /\ tickCount = MaxIdleTicks
  /\ sel.ran = idleTaskHandle
  /\ tasks[idleTaskHandle].state \in {"ready", "running"}

\* The tasks whose state is RUNNING.
RunningTasks == {h \in DOMAIN tasks : tasks[h].state = "running"}

\* C37: at most one task is RUNNING, and a RUNNING task is the one in the
\* running slot.
C37_OneRunning ==
  /\ Cardinality(RunningTasks) <= 1
  /\ \A h \in RunningTasks : currentTask = h

\* C37 witness: a task is RUNNING in the running slot after the slot has
\* passed on from another task, which made a step and is READY again.
C37_Witness ==
  \E h \in RunningTasks, o \in DOMAIN tasks :
     /\ o # h /\ currentTask = h /\ sel.ran = h
     /\ tasks[o].gen >= 1 /\ tasks[o].state = "ready"

\* C38: the running slot is null or holds the handle of a task that is in
\* the task table.
C38_CurrentIsLive == currentTask = NULL \/ Live(TM, currentTask)

\* C39: every handle in the ready, blocked or suspended list is a live task,
\* every live task is in at least one of the three lists, and the three
\* counts of getSystemStatus add up to at least totalTasks.
C39_ListsMatchTable ==
  /\ \A h \in Handles :
       Includes(readyList, h) \/ Includes(blockedList, h) \/ Includes(suspendedList, h)
       => Live(TM, h)
  /\ \A h \in DOMAIN tasks :
       Includes(readyList, h) \/ Includes(blockedList, h) \/ Includes(suspendedList, h)
  /\ LET status == getSystemStatus(TM)
     IN  status.readyTasks + status.blockedTasks + status.suspendedTasks
           >= status.totalTasks

\* In m, h stands in the ready list after every READY task of priority >= p
\* and before every READY task of priority < p.
PlacedByPriority(m, h, p) ==
  LET rl == m.readyList
      i == IndexOf(rl, h)
  IN  /\ i # 0
      /\ \A j \in 1..Len(rl) :
           rl[j] # h /\ Live(m, rl[j]) /\ m.tasks[rl[j]].state = "ready"
           => /\ m.tasks[rl[j]].priority >= p => j < i
              /\ m.tasks[rl[j]].priority < p => j > i

\* C36: setTaskPriority(h, p) on a BLOCKED or SUSPENDED task returns true and
\* writes the task's priority and nothing else; the unblockTask or resumeTask
\* that follows puts h into the ready list after the READY tasks of priority
\* >= p and before those of priority < p.
C36_PriorityOfWaitingTask ==
  \A h \in DOMAIN tasks, p \in Priorities :
    tasks[h].state \in {"blocked", "suspended"} =>
      LET m1 == setTaskPriority(TM, h, p)
          m2 == IF tasks[h].state = "suspended" THEN resumeTask(m1, h)
                ELSE unblockTask(m1, h)
      IN  /\ setTaskPriorityRet(TM, h)
          /\ m1 = [TM EXCEPT !.tasks[h].priority = p]
          /\ m2.tasks[h].state = "ready"
          /\ PlacedByPriority(m2, h, p)

\* C40: a task suspended while BLOCKED on a delay with k > 0 ticks left has
\* delayTicks = k when it becomes SUSPENDED and after every step that leaves
\* it SUSPENDED; it leaves SUSPENDED by a resumeTask (no tick), READY and in
\* the ready list with delayTicks still k, and the delay processing of the
\* next tick leaves it there, so that tick can select it.
C40_SuspendedKeepsDelay ==
  [][\A h \in DOMAIN tasks \cap DOMAIN tasks' :
       /\ /\ tasks[h].state = "blocked" /\ tasks[h].blockedOn = "delay"
          /\ tasks[h].delayTicks > 0 /\ tasks'[h].state = "suspended"
          => tasks'[h].delayTicks = tasks[h].delayTicks
       /\ tasks[h].state = "suspended" /\ tasks'[h].state = "suspended"
          => tasks'[h].delayTicks = tasks[h].delayTicks
       /\ /\ tasks[h].state = "suspended" /\ tasks[h].delayTicks > 0
          /\ tasks'[h].state # "suspended"
          => /\ ~IsTick
             /\ tasks'[h].state = "ready"
             /\ tasks'[h].delayTicks = tasks[h].delayTicks
             /\ Includes(readyList', h)
             /\ ~Includes(blockedList', h)
             /\ processDelayedTasks(TM').tasks[h] = tasks'[h]
             /\ Includes(processDelayedTasks(TM').readyList, h)]_vars

\* C40 witness: a user task was suspended, ticks went by, it has been resumed
\* READY with ticks of its delay left, and the next tick will advance it.
C40_Witness ==
  /\ susp.resumed /\ susp.h # idleTaskHandle /\ Live(TM, susp.h)
  /\ susp.ticks >= 1
  /\ tasks[susp.h].state = "ready"
  /\ tasks[susp.h].delayTicks >= 1
  /\ tickInterval
  /\ Picked(processDelayedTasks(TM), currentTaskIndex, idleTaskHandle) = susp.h

\* A tick at whose selection step every task of strictly higher priority
\* than h is BLOCKED.
HigherBlockedTick(h) ==
  /\ tickCount' = tickCount + 1
  /\ h \in DOMAIN tasks
  /\ \A o \in DOMAIN tasks :
       tasks[o].priority > tasks[h].priority
       => processDelayedTasks(TM).tasks[o].state = "blocked"

\* C35: a user task that from some point on is always live and READY or
\* RUNNING (never suspended, deleted or blocked) is advanced again and again
\* if again and again a tick finds every task of strictly higher priority
\* BLOCKED.
C35_NoStarvation ==
  \A h \in 2..(MaxPPTasks + 1) :
    (/\ <>[](h \in DOMAIN tasks /\ tasks[h].state \in {"ready", "running"})
     /\ []<><<HigherBlockedTick(h)>>_vars)
    => []<>(sel.ran = h)

\* The task created from a body, if one has been created, and its parts.
Created == unit.h # NULL

DelayOnly == Created /\ ~unit.all

StatementLevel == Created /\ unit.all

Deleted == Created /\ ~Live(TM, unit.h)

DelayCalls(body) == {i \in DOMAIN body : isDelayCall(body[i])}

NthDelay(body, k) ==
  IF k = 0 THEN 0
  ELSE CHOOSE i \in DelayCalls(body) :
         Cardinality({j \in DelayCalls(body) : j <= i}) = k

\* C32: in delay-only mode the unit suspends exactly once per evaluated delay
\* call, in evaluation order, each time with the marker delayTicks = n of that
\* call and before any later statement has run, and it returns done = true on
\* the step after the last one; delay calls with the same source text included.
C32_OneSuspensionPerDelay ==
  DelayOnly =>
    LET body == unit.body
        d == Cardinality(DelayCalls(body))
        steps == RunUnit(unit.code)
    IN  /\ Len(steps) = d + 1
        /\ \A k \in 1..d :
             steps[k] = Result(FALSE, "marker", body[NthDelay(body, k)].n,
                               SubSeq(body, NthDelay(body, k - 1) + 1,
                                      NthDelay(body, k)))
        /\ steps[d + 1] = Result(TRUE, "undefined", 0,
                                 SubSeq(body, NthDelay(body, d) + 1, Len(body)))

\* The value a statement yields: the marker of delay(n), or the value of the
\* expression.
Yielded(s, ran) ==
  IF isDelayCall(s) THEN Result(FALSE, "marker", s.n, ran)
  ELSE Result(FALSE, "value", 0, ran)

\* C33: in statement-level mode a body of k top-level expression statements,
\* at least one of them a delay call, becomes a unit whose first k steps each
\* execute one statement and return done = false (the delay statement with its
\* marker) and whose step k + 1 returns done = true.
C33_OneStepPerStatement ==
  (StatementLevel /\ hasDelayCallInAST(unit.body))
    => LET body == unit.body
           steps == RunUnit(unit.code)
       IN  /\ Len(steps) = Len(body) + 1
           /\ \A i \in 1..Len(body) : steps[i] = Yielded(body[i], <<body[i]>>)
           /\ steps[Len(body) + 1] = Result(TRUE, "undefined", 0, <<>>)

\* C34: in statement-level mode a body of k top-level statements without a
\* delay call becomes a unit that returns done = false once per statement and
\* done = true on step k + 1; the task created from it is advanced k + 1 times
\* before it is deleted.
C34_NoDelayStepsPerStatement ==
  (StatementLevel /\ ~hasDelayCallInAST(unit.body))
    => LET body == unit.body
           steps == RunUnit(unit.code)
       IN  /\ Len(steps) = Len(body) + 1
           /\ \A i \in 1..Len(body) : ~steps[i].done /\ steps[i].ran = <<body[i]>>
           /\ steps[Len(body) + 1].done
           /\ Len(unit.results) <= Len(body) + 1
           /\ Deleted <=> Len(unit.results) = Len(body) + 1

====
